---- MODULE Spec2Model ----
(***************************************************************************)
(* Model of GenerateTranslationContributionStatsJob and CombineStats       *)
(* (core/jobs/batch_jobs/suggestion_stats_computation_jobs.py) and of the  *)
(* summary of main in scripts/run_backend_tests.py.                        *)
(*                                                                         *)
(* Spec is a run of the job's pipeline, CombineSpec a worker calling the   *)
(* methods of CombineStats on accumulators and stats dicts of its own,     *)
(* MainSpec the summary of the test runner over the tasks it has run,      *)
(* ShardsSpec a call of the test runner's _check_shards_match_tests, and   *)
(* MailSpec a call of send_email_to_recipients as the tests of             *)
(* core/platform/email/mailgun_email_services_test.py make it.             *)
(*                                                                         *)
(* Python strings that the code formats, joins, splits or parses are       *)
(* sequences of one-character strings; strings the code only compares      *)
(* (the status and suggestion-type constants) are TLA+ strings.            *)
(***************************************************************************)
EXTENDS Integers, Sequences, FiniteSets, Bags, TLC

VARIABLES
    suggestion_models,      \* GeneralSuggestionModel.get_all(include_deleted=False)
    opportunity_models,     \* ExplorationOpportunitySummaryModel.get_all(...)
    ungenerated,            \* co-group keys 'Generate stats' has not processed yet
    generated,              \* every (key, stats dict) element yielded by _generate_stats
    pending,                \* the elements of generated no add_input has consumed yet
    partials,               \* key -> sequence of partial accumulators of CombinePerKey
    combined_keys,          \* keys whose extract_output has been taken
    new_user_stats_models,  \* bag of models made by _generate_translation_contribution_model
    datastore,              \* bag of models PutModels has written
    counted,                \* whether Count.Globally has run
    results,                \* the PCollection of JobRunResult that run() returns
    run_error,              \* None, or the exception that aborted the pipeline
    held_accumulators,      \* CombineSpec: the accumulators a worker holds
    last_call,              \* CombineSpec: the last call of a CombineStats method
    combine_error,          \* CombineSpec: None, or the exception a call raised
    parsed_args,            \* MainSpec: the flags main was called with
    tasks,                  \* MainSpec: the tasks, each with its outcome
    task_execution_failed,  \* MainSpec: whether execute_tasks raised
    combined_coverage,      \* MainSpec: the coverage _check_coverage(True) gives
    task_index,             \* MainSpec: how many tasks the summary has gone through
    test_count,             \* MainSpec: main's local test_count
    total_count,            \* MainSpec: main's local total_count
    total_errors,           \* MainSpec: main's local total_errors
    total_failures,         \* MainSpec: main's local total_failures
    incomplete_coverage,    \* MainSpec: main's local incomplete_coverage
    main_raised,            \* MainSpec: the exception main raised, if any
    main_done,              \* MainSpec: whether main has returned
    shards_file,            \* ShardsSpec: the shards of SHARDS_SPEC_PATH, name -> modules
    test_files,             \* ShardsSpec: the test modules found under the path
    validation_error,       \* ShardsSpec: what _check_shards_match_tests returned
    MAILGUN_API_KEY,        \* MailSpec: feconf.MAILGUN_API_KEY
    MAILGUN_DOMAIN_NAME,    \* MailSpec: feconf.MAILGUN_DOMAIN_NAME
    recipient_emails,       \* MailSpec: the recipients of the email
    expected_query_url,     \* MailSpec: the request the mocked url_open answers with 200
    response_code,          \* MailSpec: the code of the response, once there is one
    resp                    \* MailSpec: what send_email_to_recipients returned or raised

pipeline_vars ==
    << suggestion_models, opportunity_models, ungenerated, generated, pending,
       partials, combined_keys, new_user_stats_models, datastore, counted,
       results, run_error >>

combine_vars == << held_accumulators, last_call, combine_error >>

main_vars ==
    << parsed_args, tasks, task_execution_failed, combined_coverage,
       task_index, test_count, total_count, total_errors, total_failures,
       incomplete_coverage, main_raised, main_done >>

shards_vars == << shards_file, test_files, validation_error >>

mail_vars ==
    << MAILGUN_API_KEY, MAILGUN_DOMAIN_NAME, recipient_emails,
       expected_query_url, response_code, resp >>

vars == << pipeline_vars, combine_vars, main_vars, shards_vars, mail_vars >>

-----------------------------------------------------------------------------
(* Bounds of the model.                                                    *)

MaxSuggestions == 3
MaxOpportunities == 2

-----------------------------------------------------------------------------
(* Constants of the program.                                               *)

\* Python's None where a string is expected (Optional[str]); no string of
\* characters equals it.
None == << "None" >>

\* Python's None where an ExplorationOpportunitySummary is expected.
NoOpportunity == [absent |-> TRUE]

\* Exceptions, as values returned in place of a result.
ValueError == [exception |-> "ValueError"]
IndexError == [exception |-> "IndexError"]

IsException(v) == "exception" \in DOMAIN v

\* No exception, where an exception or none is held.
NotRaised == [exception |-> "None"]

STATUS_ACCEPTED == "accepted"
STATUS_REJECTED == "rejected"
STATUS_IN_REVIEW == "review"

SUGGESTION_TYPE_TRANSLATE_CONTENT == "translate_content"
SUGGESTION_TYPE_ADD_QUESTION == "add_question"

-----------------------------------------------------------------------------
(* Strings.                                                                *)

Digits == << "0", "1", "2", "3", "4", "5", "6", "7", "8", "9" >>

IsDigit(c) == \E i \in 1..10 : Digits[i] = c

DigitValue(c) == (CHOOSE i \in 1..10 : Digits[i] = c) - 1

\* '%s' % n for a natural number n.
RECURSIVE IntToStr(_)
IntToStr(n) ==
    IF n < 10 THEN << Digits[n + 1] >>
    ELSE IntToStr(n \div 10) \o << Digits[(n % 10) + 1] >>

\* int(s) for a non-empty string of decimal digits.
RECURSIVE StrToInt(_)
StrToInt(s) ==
    IF Len(s) = 1 THEN DigitValue(s[1])
    ELSE 10 * StrToInt(SubSeq(s, 1, Len(s) - 1)) + DigitValue(s[Len(s)])

\* n written with at least width digits, zero padded ('%04d', '%02d').
RECURSIVE ZeroPad(_, _)
ZeroPad(s, width) == IF Len(s) >= width THEN s ELSE ZeroPad(<< "0" >> \o s, width)

\* str.split(sep): the pieces between the occurrences of sep.
RECURSIVE SplitOn(_, _)
SplitOn(s, sep) ==
    IF \A i \in 1..Len(s) : s[i] # sep THEN << s >>
    ELSE LET i == CHOOSE i \in 1..Len(s) :
                      s[i] = sep /\ \A j \in 1..(i - 1) : s[j] # sep
         IN  << SubSeq(s, 1, i - 1) >> \o SplitOn(SubSeq(s, i + 1, Len(s)), sep)

\* html_cleaner.strip_html_tags: the text outside '<' ... '>'.
RECURSIVE StripFrom(_, _)
StripFrom(s, in_tag) ==
    IF s = << >> THEN << >>
    ELSE IF in_tag THEN StripFrom(Tail(s), Head(s) # ">")
    ELSE IF Head(s) = "<" THEN StripFrom(Tail(s), TRUE)
    ELSE << Head(s) >> \o StripFrom(Tail(s), FALSE)

strip_html_tags(html) == StripFrom(html, FALSE)

\* len(text.split()): the number of maximal runs of non-whitespace characters.
WordCount(text) ==
    Cardinality({ i \in 1..Len(text) :
                    text[i] # " " /\ (i = 1 \/ text[i - 1] = " ") })

-----------------------------------------------------------------------------
(* Dates.                                                                  *)

IsLeap(y) == (y % 4 = 0 /\ y % 100 # 0) \/ y % 400 = 0

DaysInMonth(y, m) ==
    IF m = 2 THEN (IF IsLeap(y) THEN 29 ELSE 28)
    ELSE IF m \in {4, 6, 9, 11} THEN 30 ELSE 31

\* datetime.date(): the time of day is dropped.
Date(dt) == [year |-> dt.year, month |-> dt.month, day |-> dt.day]

\* date.isoformat(): 'YYYY-MM-DD'.
IsoFormat(d) ==
    ZeroPad(IntToStr(d.year), 4) \o << "-" >> \o ZeroPad(IntToStr(d.month), 2)
        \o << "-" >> \o ZeroPad(IntToStr(d.day), 2)

AllDigits(s) == Len(s) > 0 /\ \A i \in 1..Len(s) : IsDigit(s[i])

\* As Strptime, but the day is not checked against the length of the month.
Strptime_any_day(s) ==
    LET f == SplitOn(s, "-") IN
    IF Len(f) # 3 THEN ValueError
    ELSE IF ~(AllDigits(f[1]) /\ AllDigits(f[2]) /\ AllDigits(f[3])) THEN ValueError
    ELSE IF Len(f[1]) # 4 \/ Len(f[2]) > 2 \/ Len(f[3]) > 2 THEN ValueError
    ELSE LET y == StrToInt(f[1])
             m == StrToInt(f[2])
             d == StrToInt(f[3])
         IN  IF y < 1 \/ m < 1 \/ m > 12 \/ d < 1 THEN ValueError
             ELSE [year |-> y, month |-> m, day |-> d]

\* datetime.datetime.strptime(s, '%Y-%m-%d').date(), or ValueError.
Strptime(s) ==
    LET f == SplitOn(s, "-") IN
    IF Len(f) # 3 THEN ValueError
    ELSE IF ~(AllDigits(f[1]) /\ AllDigits(f[2]) /\ AllDigits(f[3])) THEN ValueError
    ELSE IF Len(f[1]) # 4 \/ Len(f[2]) > 2 \/ Len(f[3]) > 2 THEN ValueError
    ELSE LET y == StrToInt(f[1])
             m == StrToInt(f[2])
             d == StrToInt(f[3])
         IN  IF y < 1 \/ m < 1 \/ m > 12 \/ d < 1 THEN ValueError
             ELSE IF d > DaysInMonth(y, m) THEN ValueError
             ELSE [year |-> y, month |-> m, day |-> d]

-----------------------------------------------------------------------------
(* CombineStats.                                                           *)

\* suggestion_registry.TranslationContributionStats(...), positional.
TranslationContributionStats(language_code, contributor_user_id, topic_id, submitted_translations_count, submitted_translation_word_count, accepted_translations_count, accepted_translations_without_reviewer_edits_count, accepted_translation_word_count, rejected_translations_count, rejected_translation_word_count, contribution_dates) ==
    [ language_code |-> language_code,
      contributor_user_id |-> contributor_user_id,
      topic_id |-> topic_id,
      submitted_translations_count |-> submitted_translations_count,
      submitted_translation_word_count |-> submitted_translation_word_count,
      accepted_translations_count |-> accepted_translations_count,
      accepted_translations_without_reviewer_edits_count |->
          accepted_translations_without_reviewer_edits_count,
      accepted_translation_word_count |-> accepted_translation_word_count,
      rejected_translations_count |-> rejected_translations_count,
      rejected_translation_word_count |-> rejected_translation_word_count,
      contribution_dates |-> contribution_dates ]

\* TranslationContributionStats.create_default(): no identity, zero counters,
\* no dates.
create_default ==
    TranslationContributionStats(None, None, None, 0, 0, 0, 0, 0, 0, 0, {})

create_accumulator == create_default

\* int(b) for a bool b.
int(b) == IF b THEN 1 ELSE 0

is_accepted(translation) == translation.suggestion_status = STATUS_ACCEPTED

\* As is_accepted_and_not_edited, but the reviewer's edit is not looked at.
is_accepted_and_not_edited_forgets_edit(translation) == is_accepted(translation)

\* As is_accepted_and_not_edited, but the status is not looked at.
is_accepted_and_not_edited_forgets_status(translation) ==
    ~translation.edited_by_reviewer

is_accepted_and_not_edited(translation) ==
    is_accepted(translation) /\ ~translation.edited_by_reviewer

is_rejected(translation) == translation.suggestion_status = STATUS_REJECTED

\* As add_input, but only the date of the last suggestion is kept.
add_input_last_date(accumulator, translation) ==
    LET word_count == translation.content_word_count
        suggestion_date == Strptime(translation.last_updated_date)
    IN  IF IsException(suggestion_date) THEN suggestion_date
        ELSE TranslationContributionStats(
            accumulator.language_code,
            accumulator.contributor_user_id,
            accumulator.topic_id,
            accumulator.submitted_translations_count + 1,
            accumulator.submitted_translation_word_count + word_count,
            accumulator.accepted_translations_count
                + int(is_accepted(translation)),
            accumulator.accepted_translations_without_reviewer_edits_count
                + int(is_accepted_and_not_edited(translation)),
            accumulator.accepted_translation_word_count
                + word_count * int(is_accepted(translation)),
            accumulator.rejected_translations_count
                + int(is_rejected(translation)),
            accumulator.rejected_translation_word_count
                + word_count * int(is_rejected(translation)),
            {suggestion_date})

add_input(accumulator, translation) ==
    LET word_count == translation.content_word_count
        suggestion_date == Strptime(translation.last_updated_date)
    IN  IF IsException(suggestion_date) THEN suggestion_date
        ELSE TranslationContributionStats(
            accumulator.language_code,
            accumulator.contributor_user_id,
            accumulator.topic_id,
            accumulator.submitted_translations_count + 1,
            accumulator.submitted_translation_word_count + word_count,
            accumulator.accepted_translations_count
                + int(is_accepted(translation)),
            accumulator.accepted_translations_without_reviewer_edits_count
                + int(is_accepted_and_not_edited(translation)),
            accumulator.accepted_translation_word_count
                + word_count * int(is_accepted(translation)),
            accumulator.rejected_translations_count
                + int(is_rejected(translation)),
            accumulator.rejected_translation_word_count
                + word_count * int(is_rejected(translation)),
            accumulator.contribution_dates \cup {suggestion_date})

\* As sum, but the first accumulator is left out.
sum_without_first(accumulators, field) ==
    LET F[ j \in 0..Len(accumulators) ] ==
            IF j <= 1 THEN 0 ELSE F[j - 1] + accumulators[j][field]
    IN  F[Len(accumulators)]

\* sum(f(acc) for acc in accumulators), f given as a field name.
RECURSIVE sum(_, _)
sum(accumulators, field) ==
    IF accumulators = << >> THEN 0
    ELSE Head(accumulators)[field] + sum(Tail(accumulators), field)

\* As union, but only the dates of the first accumulator are kept.
union_of_first(accumulators) == accumulators[1].contribution_dates

\* set().union(*[acc.contribution_dates for acc in accumulators])
union(accumulators) ==
    UNION { accumulators[i].contribution_dates : i \in 1..Len(accumulators) }

\* As merge_accumulators, but the submitted counters are those of the first
\* accumulator, like the identity.
merge_accumulators_first_submitted(accumulators) ==
    IF accumulators = << >> THEN IndexError
    ELSE TranslationContributionStats(
        accumulators[1].language_code,
        accumulators[1].contributor_user_id,
        accumulators[1].topic_id,
        accumulators[1].submitted_translations_count,
        accumulators[1].submitted_translation_word_count,
        sum(accumulators, "accepted_translations_count"),
        sum(accumulators, "accepted_translations_without_reviewer_edits_count"),
        sum(accumulators, "accepted_translation_word_count"),
        sum(accumulators, "rejected_translations_count"),
        sum(accumulators, "rejected_translation_word_count"),
        union(accumulators))

\* As merge_accumulators, but the language, contributor and topic are those
\* of the last accumulator.
merge_accumulators_last_identity(accumulators) ==
    IF accumulators = << >> THEN IndexError
    ELSE TranslationContributionStats(
        accumulators[Len(accumulators)].language_code,
        accumulators[Len(accumulators)].contributor_user_id,
        accumulators[Len(accumulators)].topic_id,
        sum(accumulators, "submitted_translations_count"),
        sum(accumulators, "submitted_translation_word_count"),
        sum(accumulators, "accepted_translations_count"),
        sum(accumulators, "accepted_translations_without_reviewer_edits_count"),
        sum(accumulators, "accepted_translation_word_count"),
        sum(accumulators, "rejected_translations_count"),
        sum(accumulators, "rejected_translation_word_count"),
        union(accumulators))

merge_accumulators(accumulators) ==
    IF accumulators = << >> THEN IndexError
    ELSE TranslationContributionStats(
        accumulators[1].language_code,
        accumulators[1].contributor_user_id,
        accumulators[1].topic_id,
        sum(accumulators, "submitted_translations_count"),
        sum(accumulators, "submitted_translation_word_count"),
        sum(accumulators, "accepted_translations_count"),
        sum(accumulators, "accepted_translations_without_reviewer_edits_count"),
        sum(accumulators, "accepted_translation_word_count"),
        sum(accumulators, "rejected_translations_count"),
        sum(accumulators, "rejected_translation_word_count"),
        union(accumulators))

extract_output(accumulator) == accumulator

-----------------------------------------------------------------------------
(* The stored models the job reads.                                        *)

HI == << "h", "i" >>
ES == << "e", "s" >>
U1 == << "u", "1" >>
U2 == << "u", "2" >>
T1 == << "t", "1" >>
T2 == << "t", "2" >>
E1 == << "e", "1" >>
E2 == << "e", "2" >>
E3 == << "e", "3" >>

\* '<p>hi there</p>'
HtmlHiThere ==
    << "<", "p", ">", "h", "i", " ", "t", "h", "e", "r", "e", "<", "/", "p", ">" >>
\* '<p class="x y">a</p>'
HtmlOneWord ==
    << "<", "p", " ", "c", "=", "x", " ", "y", ">", "a", "<", "/", "p", ">" >>
\* ''
HtmlEmpty == << >>

Jan5Morning == [year |-> 2024, month |-> 1, day |-> 5, hour |-> 9]
Jan5Evening == [year |-> 2024, month |-> 1, day |-> 5, hour |-> 21]
Feb29 == [year |-> 2024, month |-> 2, day |-> 29, hour |-> 0]

GeneralSuggestionModel(id, suggestion_type, target_id, language_code, author_id, status, edited_by_reviewer, content_html, last_updated) ==
    [ id |-> id, suggestion_type |-> suggestion_type, target_id |-> target_id,
      language_code |-> language_code, author_id |-> author_id,
      status |-> status, edited_by_reviewer |-> edited_by_reviewer,
      content_html |-> content_html, last_updated |-> last_updated ]

\* The suggestion models a run may find in the datastore.
SuggestionModels ==
    { GeneralSuggestionModel(1, SUGGESTION_TYPE_TRANSLATE_CONTENT, E1, HI, U1,
                             STATUS_ACCEPTED, FALSE, HtmlHiThere, Jan5Morning),
      GeneralSuggestionModel(2, SUGGESTION_TYPE_TRANSLATE_CONTENT, E1, HI, U1,
                             STATUS_ACCEPTED, FALSE, HtmlHiThere, Jan5Morning),
      GeneralSuggestionModel(3, SUGGESTION_TYPE_TRANSLATE_CONTENT, E1, HI, U1,
                             STATUS_REJECTED, FALSE, HtmlOneWord, Jan5Evening),
      GeneralSuggestionModel(4, SUGGESTION_TYPE_TRANSLATE_CONTENT, E2, HI, U1,
                             STATUS_ACCEPTED, TRUE, HtmlOneWord, Feb29),
      GeneralSuggestionModel(5, SUGGESTION_TYPE_TRANSLATE_CONTENT, E2, HI, U1,
                             STATUS_IN_REVIEW, FALSE, HtmlEmpty, Feb29),
      GeneralSuggestionModel(6, SUGGESTION_TYPE_TRANSLATE_CONTENT, E1, ES, U2,
                             STATUS_REJECTED, TRUE, HtmlHiThere, Feb29),
      GeneralSuggestionModel(7, SUGGESTION_TYPE_ADD_QUESTION, E1, HI, U1,
                             STATUS_ACCEPTED, FALSE, HtmlHiThere, Jan5Morning) }

ExplorationOpportunitySummaryModel(id, topic_id) ==
    [ id |-> id, topic_id |-> topic_id ]

\* The opportunity models a run may find; two of them share the id e1.
OpportunityModels ==
    { ExplorationOpportunitySummaryModel(E1, T1),
      ExplorationOpportunitySummaryModel(E1, T2),
      ExplorationOpportunitySummaryModel(E2, T1),
      ExplorationOpportunitySummaryModel(E3, T2) }

-----------------------------------------------------------------------------
(* GenerateTranslationContributionStatsJob.                                *)

\* As TranslateSuggestions, but without the filter on the suggestion type.
TranslateSuggestions_unfiltered == suggestion_models

\* 'Filter translate suggestions' and 'Transform to suggestion domain object'.
TranslateSuggestions ==
    { m \in suggestion_models :
        m.suggestion_type = SUGGESTION_TYPE_TRANSLATE_CONTENT }

\* 'Group by target': target id -> the suggestions with that target.
suggestions_grouped_by_target ==
    [ t \in { m.target_id : m \in TranslateSuggestions } |->
        { m \in TranslateSuggestions : m.target_id = t } ]

\* 'Group by ID': opportunity id -> the opportunities with that id.
exp_opportunities ==
    [ i \in { o.id : o \in opportunity_models } |->
        { o \in opportunity_models : o.id = i } ]

\* 'Merge models' and 'Get rid of key': for every key of either grouping, the
\* list of that key's groups on each side (one group or none).
CoGroupByKey(k) ==
    [ suggestion |->
          IF k \in DOMAIN suggestions_grouped_by_target
          THEN << suggestions_grouped_by_target[k] >> ELSE << >>,
      opportunity |->
          IF k \in DOMAIN exp_opportunities
          THEN << exp_opportunities[k] >> ELSE << >> ]

CoGroupKeys == DOMAIN suggestions_grouped_by_target \cup DOMAIN exp_opportunities

\* As SuggestionsOf, but a target without an opportunity has no suggestions
\* (an inner join).
SuggestionsOf_matched_only(x) ==
    IF Len(x.suggestion) # 0 /\ Len(x.opportunity) # 0
    THEN x.suggestion[1] ELSE {}

\* As SuggestionsOf, but an opportunity that no suggestion targets is joined
\* with every suggestion.
SuggestionsOf_or_all(x) ==
    IF Len(x.suggestion) # 0 THEN x.suggestion[1] ELSE TranslateSuggestions

\* x['suggestion'][0] if len(x['suggestion']) else []
SuggestionsOf(x) == IF Len(x.suggestion) # 0 THEN x.suggestion[1] ELSE {}

\* As OpportunitiesOf, but a group of several opportunities counts as none.
OpportunitiesOf_unique_only(x) ==
    IF Len(x.opportunity) # 0 /\ Cardinality(x.opportunity[1]) = 1
    THEN x.opportunity[1] ELSE { NoOpportunity }

\* list(x['opportunity'][0])[0] if len(x['opportunity']) else None.  The order
\* of a group is not defined, so any member of it can be the first.
OpportunitiesOf(x) ==
    IF Len(x.opportunity) # 0 THEN x.opportunity[1] ELSE { NoOpportunity }

\* TranslationContributionStatsModel.generate_id: '%s.%s.%s'.
generate_id(language_code, contributor_user_id, topic_id) ==
    language_code \o << "." >> \o contributor_user_id \o << "." >> \o topic_id

\* As generate_stats, but only one suggestion of the group yields a pair.
generate_stats_one_per_group(suggestions, opportunity) ==
    LET topic_id == IF opportunity # NoOpportunity
                    THEN opportunity.topic_id ELSE << >>
        first == IF suggestions = {} THEN {}
                 ELSE { CHOOSE suggestion \in suggestions : TRUE }
    IN  { [ element |-> suggestion.id,
            key |-> generate_id(suggestion.language_code, suggestion.author_id,
                                topic_id),
            stats |-> [ suggestion_status |-> suggestion.status,
                        edited_by_reviewer |-> suggestion.edited_by_reviewer,
                        content_word_count |->
                            WordCount(strip_html_tags(suggestion.content_html)),
                        last_updated_date |->
                            IsoFormat(Date(suggestion.last_updated)) ] ] :
          suggestion \in first }

\* The (key, stats dict) pairs _generate_stats yields; element names the
\* suggestion the pair was made from, which tells equal pairs apart.
generate_stats(suggestions, opportunity) ==
    LET topic_id == IF opportunity # NoOpportunity
                    THEN opportunity.topic_id ELSE << >>
    IN  { [ element |-> suggestion.id,
            key |-> generate_id(suggestion.language_code, suggestion.author_id,
                                topic_id),
            stats |-> [ suggestion_status |-> suggestion.status,
                        edited_by_reviewer |-> suggestion.edited_by_reviewer,
                        content_word_count |->
                            WordCount(strip_html_tags(suggestion.content_html)),
                        last_updated_date |->
                            IsoFormat(Date(suggestion.last_updated)) ] ] :
          suggestion \in suggestions }

\* As generate_translation_contribution_model, but the language, contributor
\* and topic of the model are those of the accumulator, not those of the id.
generate_translation_contribution_model_of_accumulator(entity_id, translation) ==
    LET parts == SplitOn(entity_id, ".") IN
    IF Len(parts) # 3 THEN ValueError
    ELSE [ id |-> entity_id,
           language_code |-> translation.language_code,
           contributor_user_id |-> translation.contributor_user_id,
           topic_id |-> translation.topic_id,
           submitted_translations_count |->
               translation.submitted_translations_count,
           submitted_translation_word_count |->
               translation.submitted_translation_word_count,
           accepted_translations_count |->
               translation.accepted_translations_count,
           accepted_translations_without_reviewer_edits_count |->
               translation.accepted_translations_without_reviewer_edits_count,
           accepted_translation_word_count |->
               translation.accepted_translation_word_count,
           rejected_translations_count |->
               translation.rejected_translations_count,
           rejected_translation_word_count |->
               translation.rejected_translation_word_count,
           contribution_dates |-> translation.contribution_dates ]

\* As generate_translation_contribution_model, but a split of more than three
\* parts is taken by its first three.
generate_translation_contribution_model_first_three(entity_id, translation) ==
    LET parts == SplitOn(entity_id, ".") IN
    IF Len(parts) < 3 THEN ValueError
    ELSE [ id |-> entity_id,
           language_code |-> parts[1],
           contributor_user_id |-> parts[2],
           topic_id |-> parts[3],
           submitted_translations_count |->
               translation.submitted_translations_count,
           submitted_translation_word_count |->
               translation.submitted_translation_word_count,
           accepted_translations_count |->
               translation.accepted_translations_count,
           accepted_translations_without_reviewer_edits_count |->
               translation.accepted_translations_without_reviewer_edits_count,
           accepted_translation_word_count |->
               translation.accepted_translation_word_count,
           rejected_translations_count |->
               translation.rejected_translations_count,
           rejected_translation_word_count |->
               translation.rejected_translation_word_count,
           contribution_dates |-> translation.contribution_dates ]

\* _generate_translation_contribution_model, or the ValueError of unpacking
\* a split that has not three parts.
generate_translation_contribution_model(entity_id, translation) ==
    LET parts == SplitOn(entity_id, ".") IN
    IF Len(parts) # 3 THEN ValueError
    ELSE [ id |-> entity_id,
           language_code |-> parts[1],
           contributor_user_id |-> parts[2],
           topic_id |-> parts[3],
           submitted_translations_count |->
               translation.submitted_translations_count,
           submitted_translation_word_count |->
               translation.submitted_translation_word_count,
           accepted_translations_count |->
               translation.accepted_translations_count,
           accepted_translations_without_reviewer_edits_count |->
               translation.accepted_translations_without_reviewer_edits_count,
           accepted_translation_word_count |->
               translation.accepted_translation_word_count,
           rejected_translations_count |->
               translation.rejected_translations_count,
           rejected_translation_word_count |->
               translation.rejected_translation_word_count,
           contribution_dates |-> translation.contribution_dates ]

\* job_run_result.JobRunResult(stdout='SUCCESS %s' % x)
JobRunResult(x) ==
    [ stdout |-> << "S", "U", "C", "C", "E", "S", "S", " " >> \o IntToStr(x) ]

-----------------------------------------------------------------------------
(* The run of the pipeline.                                                *)

NoError == "None"

\* No run of the pipeline.
PipelineIdle ==
    /\ suggestion_models = {}
    /\ opportunity_models = {}
    /\ ungenerated = {}
    /\ generated = {}
    /\ pending = {}
    /\ partials = [ k \in {} |-> << >> ]
    /\ combined_keys = {}
    /\ new_user_stats_models = EmptyBag
    /\ datastore = EmptyBag
    /\ counted = FALSE
    /\ results = << >>
    /\ run_error = NoError

\* No worker calling CombineStats on its own.
CombineIdle ==
    /\ held_accumulators = << >>
    /\ last_call = [op |-> "none"]
    /\ combine_error = NoError

\* No main of the test runner.
MainIdle ==
    /\ parsed_args = [generate_coverage_report |-> FALSE, ignore_coverage |-> FALSE]
    /\ tasks = << >>
    /\ task_execution_failed = FALSE
    /\ combined_coverage = 100
    /\ task_index = 0
    /\ test_count = << >>
    /\ total_count = 0
    /\ total_errors = 0
    /\ total_failures = 0
    /\ incomplete_coverage = 0
    /\ main_raised = NotRaised
    /\ main_done = FALSE

\* No call of _check_shards_match_tests.
ShardsIdle ==
    /\ shards_file = [ shard \in {} |-> << >> ]
    /\ test_files = {}
    /\ validation_error = [called |-> FALSE]

\* No call of send_email_to_recipients.
MailIdle ==
    /\ MAILGUN_API_KEY = None
    /\ MAILGUN_DOMAIN_NAME = None
    /\ recipient_emails = << >>
    /\ expected_query_url = << >>
    /\ response_code = << >>
    /\ resp = [called |-> FALSE]

Init ==
    /\ suggestion_models \in
           { S \in SUBSET SuggestionModels : Cardinality(S) <= MaxSuggestions }
    /\ opportunity_models \in
           { O \in SUBSET OpportunityModels : Cardinality(O) <= MaxOpportunities }
    /\ ungenerated = CoGroupKeys
    /\ generated = {}
    /\ pending = {}
    /\ partials = [ k \in {} |-> << >> ]
    /\ combined_keys = {}
    /\ new_user_stats_models = EmptyBag
    /\ datastore = EmptyBag
    /\ counted = FALSE
    /\ results = << >>
    /\ run_error = NoError
    /\ CombineIdle
    /\ MainIdle
    /\ ShardsIdle
    /\ MailIdle

\* The keys of the elements 'Generate stats' has yielded so far.
Keys == { e.key : e \in generated }

\* 'Generate stats': _generate_stats on one co-grouped element; its pairs go
\* to 'Combine the stats'.
GenerateStats(k) ==
    /\ run_error = NoError
    /\ k \in ungenerated
    /\ \E opportunity \in OpportunitiesOf(CoGroupByKey(k)) :
         LET new == generate_stats(SuggestionsOf(CoGroupByKey(k)), opportunity)
             keys == { e.key : e \in generated \cup new }
         IN  /\ generated' = generated \cup new
             /\ pending' = pending \cup new
             /\ partials' = [ key \in keys |->
                                IF key \in DOMAIN partials
                                THEN partials[key] ELSE << >> ]
    /\ ungenerated' = ungenerated \ {k}
    /\ UNCHANGED << suggestion_models, opportunity_models, combined_keys,
                    new_user_stats_models, datastore, counted, results,
                    run_error >>
    /\ UNCHANGED << combine_vars, main_vars, shards_vars, mail_vars >>

\* CombinePerKey folds one pair into an accumulator of its key: an
\* accumulator it already holds (i <= Len) or a fresh create_accumulator().
AddInput(e, i) ==
    /\ run_error = NoError
    /\ e \in pending
    /\ i \in 1..(Len(partials[e.key]) + 1)
    /\ LET accumulator == IF i <= Len(partials[e.key])
                          THEN partials[e.key][i] ELSE create_accumulator
           r == add_input(accumulator, e.stats)
       IN  IF IsException(r)
           THEN /\ run_error' = r.exception
                /\ UNCHANGED << pending, partials >>
           ELSE /\ partials' =
                       [ partials EXCEPT ![e.key] =
                           IF i <= Len(@) THEN [ @ EXCEPT ![i] = r ]
                           ELSE Append(@, r) ]
                /\ pending' = pending \ {e}
                /\ UNCHANGED run_error
    /\ UNCHANGED << suggestion_models, opportunity_models, ungenerated,
                    generated, combined_keys, new_user_stats_models,
                    datastore, counted, results >>
    /\ UNCHANGED << combine_vars, main_vars, shards_vars, mail_vars >>

\* The lists of distinct positions of a sequence of length n, in any order.
Orders(n) ==
    { o \in UNION { [ 1..m -> 1..n ] : m \in 1..n } :
        \A a, b \in DOMAIN o : a # b => o[a] # o[b] }

\* The members of seq at the positions not named by order.
Others(seq, order) ==
    LET F[ j \in 0..Len(seq) ] ==
            IF j = 0 THEN << >>
            ELSE IF \E a \in DOMAIN order : order[a] = j THEN F[j - 1]
            ELSE Append(F[j - 1], seq[j])
    IN  F[Len(seq)]

\* After the shuffle CombinePerKey merges some accumulators of a key, in
\* any order, into one.
MergeAccumulators(k, order) ==
    /\ run_error = NoError
    /\ ungenerated = {}
    /\ k \in DOMAIN partials
    /\ order \in Orders(Len(partials[k]))
    /\ LET accumulators == [ j \in DOMAIN order |-> partials[k][order[j]] ]
           r == merge_accumulators(accumulators)
       IN  IF IsException(r)
           THEN /\ run_error' = r.exception
                /\ UNCHANGED partials
           ELSE /\ partials' =
                       [ partials EXCEPT ![k] = << r >> \o Others(@, order) ]
                /\ UNCHANGED run_error
    /\ UNCHANGED << suggestion_models, opportunity_models, ungenerated,
                    generated, pending, combined_keys, new_user_stats_models,
                    datastore, counted, results >>
    /\ UNCHANGED << combine_vars, main_vars, shards_vars, mail_vars >>

\* As Combined, but an accumulator of the key is emitted as soon as there is
\* one, whether or not pairs of the key are still to be folded or merged.
Combined_early(k) ==
    /\ ungenerated = {}
    /\ k \in DOMAIN partials
    /\ k \notin combined_keys
    /\ Len(partials[k]) >= 1

\* As Combined, but a key that was emitted can be emitted again.
Combined_again(k) ==
    /\ ungenerated = {}
    /\ k \in DOMAIN partials
    /\ \A e \in pending : e.key # k
    /\ Len(partials[k]) = 1

\* CombinePerKey emits a key once: when every pair of the key is folded and
\* one accumulator is left.
Combined(k) ==
    /\ ungenerated = {}
    /\ k \in DOMAIN partials
    /\ k \notin combined_keys
    /\ \A e \in pending : e.key # k
    /\ Len(partials[k]) = 1

\* extract_output and 'Generate models from stats' for one key.
GenerateModel(k) ==
    /\ run_error = NoError
    /\ Combined(k)
    /\ LET model == generate_translation_contribution_model(
                        k, extract_output(partials[k][1]))
       IN  IF IsException(model)
           THEN /\ run_error' = model.exception
                /\ UNCHANGED << combined_keys, new_user_stats_models >>
           ELSE /\ new_user_stats_models' =
                       new_user_stats_models (+) SetToBag({model})
                /\ combined_keys' = combined_keys \cup {k}
                /\ UNCHANGED run_error
    /\ UNCHANGED << suggestion_models, opportunity_models, ungenerated,
                    generated, pending, partials, datastore, counted,
                    results >>
    /\ UNCHANGED << combine_vars, main_vars, shards_vars, mail_vars >>

\* The models of new_user_stats_models that PutModels has yet to write.
Unput == new_user_stats_models (-) datastore

\* 'Put models into the datastore', one model.
PutModels(model) ==
    /\ run_error = NoError
    /\ BagIn(model, Unput)
    /\ datastore' = datastore (+) SetToBag({model})
    /\ UNCHANGED << suggestion_models, opportunity_models, ungenerated,
                    generated, pending, partials, combined_keys,
                    new_user_stats_models, counted, results, run_error >>
    /\ UNCHANGED << combine_vars, main_vars, shards_vars, mail_vars >>

\* As AllCombined, but the count does not wait for the keys to be combined.
AllCombined_generated_only == ungenerated = {}

\* new_user_stats_models is complete: every key has been emitted.
AllCombined ==
    /\ ungenerated = {}
    /\ pending = {}
    /\ combined_keys = Keys

\* As CountResults, but the count of an empty collection is reported
\* (Count.Globally() with its default, and no filter).
CountResults_with_defaults(n) == << JobRunResult(n) >>

\* As CountResults, but every model is counted on its own (Count.PerElement).
CountResults_per_element(n) == [ j \in 1..n |-> JobRunResult(1) ]

\* Count.Globally().without_defaults() | Filter(x > 0) | Map(JobRunResult):
\* an empty collection has no count at all.
CountResults(n) ==
    IF n = 0 THEN << >>
    ELSE IF n > 0 THEN << JobRunResult(n) >> ELSE << >>

\* 'Count all new models' .. 'Create result for new models'.
CountGlobally ==
    /\ run_error = NoError
    /\ AllCombined
    /\ ~counted
    /\ counted' = TRUE
    /\ results' = CountResults(BagCardinality(new_user_stats_models))
    /\ UNCHANGED << suggestion_models, opportunity_models, ungenerated,
                    generated, pending, partials, combined_keys,
                    new_user_stats_models, datastore, run_error >>
    /\ UNCHANGED << combine_vars, main_vars, shards_vars, mail_vars >>

Next ==
    \/ \E k \in ungenerated : GenerateStats(k)
    \/ \E e \in pending : \E i \in 1..(Len(partials[e.key]) + 1) : AddInput(e, i)
    \/ \E k \in DOMAIN partials :
         \E order \in Orders(Len(partials[k])) : MergeAccumulators(k, order)
    \/ \E k \in DOMAIN partials : GenerateModel(k)
    \/ \E model \in BagToSet(new_user_stats_models) : PutModels(model)
    \/ CountGlobally

Spec == Init /\ [][Next]_vars

\* The run is over: every model is written and the result is made.
Done ==
    /\ run_error = NoError
    /\ AllCombined
    /\ counted
    /\ Unput = EmptyBag

TypeOK ==
    /\ suggestion_models \subseteq SuggestionModels
    /\ opportunity_models \subseteq OpportunityModels
    /\ pending \subseteq generated
    /\ DOMAIN partials = Keys
    /\ combined_keys \subseteq Keys
    /\ counted \in BOOLEAN
    /\ run_error \in { NoError, ValueError.exception, IndexError.exception }

-----------------------------------------------------------------------------
(* The job over language codes, author ids and topic ids that contain the  *)
(* '.' of generate_id.                                                     *)

PT_BR == << "p", "t", ".", "b", "r" >>
U_3 == << "u", ".", "3" >>
T_3 == << "t", ".", "3" >>

\* Suggestion models whose language code or author id may contain '.'; the
\* first two have the same language, author and target.
DottedSuggestionModels ==
    { GeneralSuggestionModel(1, SUGGESTION_TYPE_TRANSLATE_CONTENT, E1, HI, U1,
                             STATUS_ACCEPTED, FALSE, HtmlHiThere, Jan5Morning),
      GeneralSuggestionModel(2, SUGGESTION_TYPE_TRANSLATE_CONTENT, E1, HI, U1,
                             STATUS_REJECTED, FALSE, HtmlOneWord, Jan5Evening),
      GeneralSuggestionModel(3, SUGGESTION_TYPE_TRANSLATE_CONTENT, E2, PT_BR, U1,
                             STATUS_ACCEPTED, FALSE, HtmlOneWord, Feb29),
      GeneralSuggestionModel(4, SUGGESTION_TYPE_TRANSLATE_CONTENT, E2, HI, U_3,
                             STATUS_ACCEPTED, TRUE, HtmlOneWord, Feb29),
      GeneralSuggestionModel(5, SUGGESTION_TYPE_TRANSLATE_CONTENT, E3, HI, U1,
                             STATUS_IN_REVIEW, FALSE, HtmlHiThere, Feb29) }

\* Opportunity models; the topic id of e3 contains '.'.
DottedOpportunityModels ==
    { ExplorationOpportunitySummaryModel(E1, T1),
      ExplorationOpportunitySummaryModel(E2, T1),
      ExplorationOpportunitySummaryModel(E3, T_3) }

DottedInit ==
    /\ suggestion_models \in
           { S \in SUBSET DottedSuggestionModels :
               Cardinality(S) <= MaxSuggestions }
    /\ opportunity_models \in
           { O \in SUBSET DottedOpportunityModels :
               Cardinality(O) <= MaxOpportunities }
    /\ ungenerated = CoGroupKeys
    /\ generated = {}
    /\ pending = {}
    /\ partials = [ k \in {} |-> << >> ]
    /\ combined_keys = {}
    /\ new_user_stats_models = EmptyBag
    /\ datastore = EmptyBag
    /\ counted = FALSE
    /\ results = << >>
    /\ run_error = NoError
    /\ CombineIdle
    /\ MainIdle
    /\ ShardsIdle
    /\ MailIdle

DottedSpec == DottedInit /\ [][Next]_vars

-----------------------------------------------------------------------------
(* CombineStats called by a worker on accumulators of its own.             *)

MaxHeld == 2
MaxFolded == 2

\* The accumulators a worker starts with: TranslationContributionStats of no
\* or of some language, contributor and topic, counting nothing yet.
ArgumentAccumulators ==
    { TranslationContributionStats(id[1], id[2], id[3], 0, 0, 0, 0, 0, 0, 0, {}) :
      id \in { << None, None, None >>, << HI, U1, T1 >>, << ES, U2, T1 >> } }

\* Values of last_updated_date that are no date in the form '%Y-%m-%d': a day
\* the month has not, another form, the empty string.
UnparsableDateStrings ==
    { << "2", "0", "2", "4", "-", "0", "2", "-", "3", "0" >>,
      << "0", "5", "/", "0", "1", "/", "2", "0", "2", "4" >>,
      << >> }

\* translation, the stats dict of a suggestion.
StatsDict(suggestion_status, last_updated_date) ==
    [ suggestion_status |-> suggestion_status,
      edited_by_reviewer |-> FALSE,
      content_word_count |-> 2,
      last_updated_date |-> last_updated_date ]

\* The stats dicts a worker is given: an accepted translation of the 5th of
\* January, a rejected one of the 29th of February, and an accepted one for
\* every value that is no date.
StatsDicts ==
    { StatsDict(STATUS_ACCEPTED, IsoFormat(Date(Jan5Morning))),
      StatsDict(STATUS_REJECTED, << "2", "0", "2", "4", "-", "2", "-", "2", "9" >>) }
    \cup { StatsDict(STATUS_ACCEPTED, date) : date \in UnparsableDateStrings }

CombineInit ==
    /\ held_accumulators \in
           UNION { [ 1..n -> ArgumentAccumulators ] : n \in 0..MaxHeld }
    /\ last_call = [op |-> "none"]
    /\ combine_error = NoError
    /\ PipelineIdle
    /\ MainIdle
    /\ ShardsIdle
    /\ MailIdle

\* create_accumulator().
CreateAccumulator ==
    /\ combine_error = NoError
    /\ Len(held_accumulators) < MaxHeld
    /\ held_accumulators' = Append(held_accumulators, create_accumulator)
    /\ last_call' = [op |-> "create_accumulator", result |-> create_accumulator]
    /\ UNCHANGED << combine_error, pipeline_vars, main_vars, shards_vars, mail_vars >>

\* add_input(accumulator, translation) on the i-th accumulator held; the
\* result takes its place, and an exception ends the worker's calls.  The
\* worker is given at most MaxFolded stats dicts.
ApplyAddInput(i, translation) ==
    /\ combine_error = NoError
    /\ i \in DOMAIN held_accumulators
    /\ sum(held_accumulators, "submitted_translations_count") < MaxFolded
    /\ LET r == add_input(held_accumulators[i], translation)
       IN  /\ last_call' = [ op |-> "add_input",
                             accumulator |-> held_accumulators[i],
                             translation |-> translation,
                             result |-> r ]
           /\ IF IsException(r)
              THEN /\ combine_error' = r.exception
                   /\ UNCHANGED held_accumulators
              ELSE /\ held_accumulators' = [ held_accumulators EXCEPT ![i] = r ]
                   /\ UNCHANGED combine_error
    /\ UNCHANGED << pipeline_vars, main_vars, shards_vars, mail_vars >>

\* merge_accumulators(accumulators) on the accumulators held at the positions
\* of order, in that order; the result takes their place.
ApplyMergeAccumulators(order) ==
    /\ combine_error = NoError
    /\ LET accumulators == [ j \in DOMAIN order |-> held_accumulators[order[j]] ]
           r == merge_accumulators(accumulators)
       IN  /\ last_call' = [ op |-> "merge_accumulators",
                             accumulators |-> accumulators,
                             result |-> r ]
           /\ IF IsException(r)
              THEN /\ combine_error' = r.exception
                   /\ UNCHANGED held_accumulators
              ELSE /\ held_accumulators' =
                          << r >> \o Others(held_accumulators, order)
                   /\ UNCHANGED combine_error
    /\ UNCHANGED << pipeline_vars, main_vars, shards_vars, mail_vars >>

\* extract_output(accumulator) on the i-th accumulator held, which the worker
\* gives away.
ApplyExtractOutput(i) ==
    /\ combine_error = NoError
    /\ i \in DOMAIN held_accumulators
    /\ last_call' = [ op |-> "extract_output",
                      accumulator |-> held_accumulators[i],
                      result |-> extract_output(held_accumulators[i]) ]
    /\ held_accumulators' = Others(held_accumulators, << i >>)
    /\ UNCHANGED << combine_error, pipeline_vars, main_vars, shards_vars, mail_vars >>

CombineNext ==
    \/ CreateAccumulator
    \/ \E i \in DOMAIN held_accumulators : \E translation \in StatsDicts :
         ApplyAddInput(i, translation)
    \/ \E order \in Orders(Len(held_accumulators)) \cup { << >> } :
         ApplyMergeAccumulators(order)
    \/ \E i \in DOMAIN held_accumulators : ApplyExtractOutput(i)

CombineSpec == CombineInit /\ [][CombineNext]_vars

-----------------------------------------------------------------------------
(* scripts/run_backend_tests.py: the summary of main.                      *)

MaxTasks == 2

\* raise Exception(message % args)
Exception(message, arguments) ==
    [exception |-> "Exception", message |-> message, args |-> arguments]

\* A local read before it is assigned.
UnboundLocalError == [exception |-> "UnboundLocalError"]

\* A task and what the summary reads of it: its target, whether it finished,
\* its exception, the number of 'Ran N tests' in its report (none when the
\* report has no such line) and the coverage in its report.
Task(test_target, finished, exception, ran, coverage) ==
    [ test_target |-> test_target, finished |-> finished,
      exception |-> exception, ran |-> ran, coverage |-> coverage ]

\* subprocess.CalledProcessError
CalledProcessError == [exception |-> "CalledProcessError"]

\* An Exception of a task, by what main looks for in its message: 'No tests
\* were run', and the numbers of 'Test suite failed: N tests run, E errors,
\* F failures' (none when the message has no such text).
TaskException(no_tests_were_run, tests_failed_regex_match) ==
    [ exception |-> "Exception", no_tests_were_run |-> no_tests_were_run,
      tests_failed_regex_match |-> tests_failed_regex_match ]

TestTargets ==
    { "core.utils_test", "core.feconf_test", "scripts.script_import_test" }

\* _load_coverage_exclusion_list(COVERAGE_EXCLUSION_LIST_PATH)
coverage_exclusions == { "scripts.script_import_test" }

\* The outcomes of the task of a target: cancelled, the subprocess failed, no
\* tests found, three tests with an error and a failure, an import error, two
\* tests passed with full or with partial coverage, and passed with a report
\* that has no 'Ran N tests' line.
TasksOf(t) ==
    { Task(t, FALSE, NotRaised, << >>, 100),
      Task(t, TRUE, CalledProcessError, << >>, 100),
      Task(t, TRUE, TaskException(TRUE, << >>), << >>, 100),
      Task(t, TRUE, TaskException(FALSE, << 3, 1, 1 >>), << >>, 100),
      Task(t, TRUE, TaskException(FALSE, << >>), << >>, 100),
      Task(t, TRUE, NotRaised, << 2 >>, 100),
      Task(t, TRUE, NotRaised, << 2 >>, 90),
      Task(t, TRUE, NotRaised, << >>, 100) }

\* The lists of at most MaxTasks tasks, one task for a target.
TaskLists ==
    { l \in UNION { [ 1..n -> UNION { TasksOf(t) : t \in TestTargets } ] :
                    n \in 0..MaxTasks } :
        \A i, j \in DOMAIN l : i # j => l[i].test_target # l[j].test_target }

MainInit ==
    /\ parsed_args \in [ generate_coverage_report : BOOLEAN,
                         ignore_coverage : BOOLEAN ]
    /\ tasks \in TaskLists
    /\ task_execution_failed \in BOOLEAN
    /\ combined_coverage \in { 90, 100 }
    /\ task_index = 0
    /\ test_count = << >>
    /\ total_count = 0
    /\ total_errors = 0
    /\ total_failures = 0
    /\ incomplete_coverage = 0
    /\ main_raised = NotRaised
    /\ main_done = FALSE
    /\ PipelineIdle
    /\ CombineIdle
    /\ ShardsIdle
    /\ MailIdle

\* One turn of 'for task in tasks'.  test_count is << >> while the local is
\* not assigned.
Summarize ==
    /\ main_raised = NotRaised
    /\ ~main_done
    /\ task_index < Len(tasks)
    /\ LET task == tasks[task_index + 1] IN
       IF ~task.finished
       THEN /\ test_count' = << 0 >>
            /\ total_count' = total_count + 0
            /\ UNCHANGED << total_errors, total_failures, incomplete_coverage,
                            main_raised >>
       ELSE IF task.exception = CalledProcessError
       THEN /\ main_raised' = task.exception
            /\ UNCHANGED << test_count, total_count, total_errors,
                            total_failures, incomplete_coverage >>
       ELSE IF task.exception # NotRaised /\ task.exception.no_tests_were_run
       THEN /\ test_count' = << 0 >>
            /\ total_count' = total_count + 0
            /\ UNCHANGED << total_errors, total_failures, incomplete_coverage,
                            main_raised >>
       ELSE IF task.exception # NotRaised
       THEN LET tests_failed_regex_match ==
                    task.exception.tests_failed_regex_match
            IN  IF tests_failed_regex_match # << >>
                THEN /\ test_count' = << tests_failed_regex_match[1] >>
                     /\ total_errors' = total_errors + tests_failed_regex_match[2]
                     /\ total_failures' =
                            total_failures + tests_failed_regex_match[3]
                     /\ total_count' = total_count + tests_failed_regex_match[1]
                     /\ UNCHANGED << incomplete_coverage, main_raised >>
                ELSE /\ test_count' = << 0 >>
                     /\ total_errors' = total_errors + 1
                     /\ main_raised' = task.exception
                     /\ UNCHANGED << total_count, total_failures,
                                     incomplete_coverage >>
       ELSE /\ test_count' = IF task.ran # << >> THEN task.ran ELSE test_count
            /\ IF /\ parsed_args.generate_coverage_report
                  /\ task.test_target \in coverage_exclusions
               THEN UNCHANGED << total_count, incomplete_coverage, main_raised >>
               ELSE /\ incomplete_coverage' =
                           IF /\ parsed_args.generate_coverage_report
                              /\ task.coverage # 100
                           THEN incomplete_coverage + 1
                           ELSE incomplete_coverage
                    /\ IF test_count' = << >>
                       THEN /\ main_raised' = UnboundLocalError
                            /\ UNCHANGED total_count
                       ELSE /\ total_count' = total_count + test_count'[1]
                            /\ UNCHANGED main_raised
            /\ UNCHANGED << total_errors, total_failures >>
    /\ task_index' = task_index + 1
    /\ UNCHANGED << parsed_args, tasks, task_execution_failed,
                    combined_coverage, main_done >>
    /\ UNCHANGED << pipeline_vars, combine_vars, shards_vars, mail_vars >>

\* main after the loop: the checks in their order, the combined report, and
\* 'Done!'.
Finish ==
    /\ main_raised = NotRaised
    /\ ~main_done
    /\ task_index = Len(tasks)
    /\ IF total_count = 0
       THEN /\ main_raised' = Exception("WARNING: No tests were run.", << >>)
            /\ UNCHANGED main_done
       ELSE IF task_execution_failed
       THEN /\ main_raised' = Exception("Task execution failed.", << >>)
            /\ UNCHANGED main_done
       ELSE IF total_errors # 0 \/ total_failures # 0
       THEN /\ main_raised' = Exception("%s errors, %s failures",
                                        << total_errors, total_failures >>)
            /\ UNCHANGED main_done
       ELSE IF incomplete_coverage # 0
       THEN /\ main_raised' =
                   Exception("%s tests incompletely cover associated code files.",
                             << incomplete_coverage >>)
            /\ UNCHANGED main_done
       ELSE IF /\ parsed_args.generate_coverage_report
               /\ combined_coverage # 100
               /\ ~parsed_args.ignore_coverage
       THEN /\ main_raised' = Exception("Backend test coverage is not 100%", << >>)
            /\ UNCHANGED main_done
       ELSE /\ main_done' = TRUE
            /\ UNCHANGED main_raised
    /\ UNCHANGED << parsed_args, tasks, task_execution_failed,
                    combined_coverage, task_index, test_count, total_count,
                    total_errors, total_failures, incomplete_coverage >>
    /\ UNCHANGED << pipeline_vars, combine_vars, shards_vars, mail_vars >>

MainNext ==
    \/ Summarize
    \/ Finish

MainSpec == MainInit /\ [][MainNext]_vars

-----------------------------------------------------------------------------
(* scripts/run_backend_tests.py: _check_shards_match_tests.                *)

MaxShardLen == 2

\* The dotted names of test modules, in the order sorted() puts them.
ModuleNames == << "core.a_test", "core.b_test", "scripts.c_test" >>

Modules == { ModuleNames[i] : i \in DOMAIN ModuleNames }

ShardNames == { "1", "2" }

\* [module for shard in shards_spec.values() for module in shard]
RECURSIVE Flatten(_, _)
Flatten(shards_spec, names) ==
    IF names = {} THEN << >>
    ELSE LET shard == CHOOSE n \in names : TRUE
         IN  shards_spec[shard] \o Flatten(shards_spec, names \ {shard})

\* list.count(module)
Count(list, module) == Cardinality({ i \in DOMAIN list : list[i] = module })

\* sorted(list), for a list of module names.
RECURSIVE Sorted(_, _)
Sorted(list, from) ==
    IF from > Len(ModuleNames) THEN << >>
    ELSE [ j \in 1..Count(list, ModuleNames[from]) |-> ModuleNames[from] ]
             \o Sorted(list, from + 1)

\* sorted(a set of module names)
SortedSet(modules) ==
    LET F[ i \in 0..Len(ModuleNames) ] ==
            IF i = 0 THEN << >>
            ELSE IF ModuleNames[i] \in modules
                 THEN Append(F[i - 1], ModuleNames[i]) ELSE F[i - 1]
    IN  F[Len(ModuleNames)]

\* A string made by format, by its template and the set of what fills it;
\* the empty string has the empty template.
Description(template, modules) == [template |-> template, modules |-> modules]

AssertionError == [exception |-> "AssertionError"]

\* As FirstDuplicated, but the first module of the list is named.
FirstDuplicated_first_listed(shard_modules) == shard_modules[1]

\* for module in shard_modules: if shard_modules.count(module) != 1: the
\* first such module.
FirstDuplicated(shard_modules) ==
    shard_modules[CHOOSE i \in DOMAIN shard_modules :
                      /\ Count(shard_modules, shard_modules[i]) # 1
                      /\ \A j \in 1..(i - 1) :
                             Count(shard_modules, shard_modules[j]) = 1]

\* _check_shards_match_tests on the shards and the test modules found.
check_shards_match_tests(shards_spec, found) ==
    LET shard_modules == Sorted(Flatten(shards_spec, DOMAIN shards_spec), 1)
        test_modules_set == found
        test_modules == SortedSet(test_modules_set)
        shard_modules_set == { shard_modules[i] : i \in DOMAIN shard_modules }
        shard_extra == shard_modules_set \ test_modules_set
        test_extra == test_modules_set \ shard_modules_set
    IN  IF test_modules = shard_modules THEN Description("", {})
        ELSE IF Cardinality(shard_modules_set) # Len(shard_modules)
        THEN IF \E i \in DOMAIN shard_modules :
                    Count(shard_modules, shard_modules[i]) # 1
             THEN Description("{} duplicated in {}",
                              { FirstDuplicated(shard_modules) })
             ELSE Exception("Failed to find  module duplicated in shards.", << >>)
        ELSE IF shard_extra # {}
        THEN Description("Modules {} in shards not found. See {}.", shard_extra)
        ELSE IF test_extra = {} THEN AssertionError
        ELSE Description("Modules {} not in shards. See {}.", test_extra)

ShardsInit ==
    /\ shards_file \in
           [ ShardNames ->
               UNION { [ 1..n -> Modules ] : n \in 0..MaxShardLen } ]
    /\ test_files \in SUBSET Modules
    /\ validation_error = [called |-> FALSE]
    /\ PipelineIdle
    /\ CombineIdle
    /\ MainIdle
    /\ MailIdle

\* validation_error = _check_shards_match_tests(include_load_tests=True)
CheckShards ==
    /\ validation_error = [called |-> FALSE]
    /\ validation_error' = check_shards_match_tests(shards_file, test_files)
    /\ UNCHANGED << shards_file, test_files >>
    /\ UNCHANGED << pipeline_vars, combine_vars, main_vars, mail_vars >>

ShardsNext == CheckShards

ShardsSpec == ShardsInit /\ [][ShardsNext]_vars

-----------------------------------------------------------------------------
(* core/platform/email/mailgun_email_services_test.py: the calls of        *)
(* send_email_to_recipients under the mocked url_request and url_open.     *)

MaxRecipients == 2

\* The recipients the tests send to.
Emails == { "b@b.com", "c@c.com", "d@d.com" }

\* feconf.MAILGUN_API_KEY: unset, or a key; 'key' is the one the tests swap in.
ApiKeys == { None, << "key" >>, << "key2" >> }

\* feconf.MAILGUN_DOMAIN_NAME: unset (None or the empty string), or 'domain'.
DomainNames == { None, << >>, << "domain" >> }

\* not value, for a setting that is None or a string.
Unset(value) == value \in { None, << >> }

\* 'https://api.mailgun.net/v3/%s/messages' % domain
Server(domain) == << "https://api.mailgun.net/v3/" >> \o domain \o << "/messages" >>

\* The 'to' field of the posted data: the recipient when there is one, the
\* string of the list when there are more.
Data(recipients) ==
    [ to |-> IF Len(recipients) = 1 THEN recipients
             ELSE << "[" >> \o recipients \o << "]" >> ]

\* {'Authorization': 'Basic ' + base64('api:' + key)}; 'Basic YXBpOmtleQ=='
\* is the header of the key 'key'.
Headers(key) ==
    [ Authorization |-> << "Basic", " ", [ base64 |-> << "api", ":" >> \o key ] >> ]

\* {'Authorization': 'Basic'}
HeadersWithoutCredentials == [ Authorization |-> << "Basic" >> ]

\* swapped_request = lambda *args: args
url_request(server_url, data, headers) == << server_url, data, headers >>

\* swapped_urlopen = lambda x: self.Response(x, expected_query_url)
Response(url, expected_url) == [ url |-> url, expected_url |-> expected_url ]

\* Response.getcode
getcode(self) == IF self.url = self.expected_url THEN 200 ELSE 500

\* The requests the tests make the mocked url_open expect: to the domain
\* 'domain', with the header of the key 'key' or with 'Basic' alone.
ExpectedQueryUrls ==
    { url_request(Server(<< "domain" >>), Data(recipients), headers) :
        recipients \in { << "b@b.com" >>, << "b@b.com", "c@c.com" >> },
        headers \in { Headers(<< "key" >>), HeadersWithoutCredentials } }

\* As send_email_to_recipients, but the domain name is looked at first.
send_email_to_recipients_domain_first(key, domain, recipients, expected) ==
    IF Unset(domain)
    THEN [ code |-> << >>,
           resp |-> Exception("Mailgun domain name is not set.", << >>) ]
    ELSE IF Unset(key)
    THEN [ code |-> << >>,
           resp |-> Exception("Mailgun API key is not available.", << >>) ]
    ELSE LET response ==
                 Response(url_request(Server(domain), Data(recipients),
                                      Headers(key)), expected)
         IN  [ code |-> << getcode(response) >>,
               resp |-> [ returned |-> getcode(response) = 200 ] ]

\* send_email_to_recipients: the API key is looked at, then the domain name,
\* then the request is posted and the code of the response decides.  It gives
\* the code of the response, when there is one, and what the caller gets.
send_email_to_recipients(key, domain, recipients, expected) ==
    IF Unset(key)
    THEN [ code |-> << >>,
           resp |-> Exception("Mailgun API key is not available.", << >>) ]
    ELSE IF Unset(domain)
    THEN [ code |-> << >>,
           resp |-> Exception("Mailgun domain name is not set.", << >>) ]
    ELSE LET response ==
                 Response(url_request(Server(domain), Data(recipients),
                                      Headers(key)), expected)
         IN  [ code |-> << getcode(response) >>,
               resp |-> [ returned |-> getcode(response) = 200 ] ]

MailInit ==
    /\ MAILGUN_API_KEY \in ApiKeys
    /\ MAILGUN_DOMAIN_NAME \in DomainNames
    /\ recipient_emails \in UNION { [ 1..n -> Emails ] : n \in 1..MaxRecipients }
    /\ expected_query_url \in ExpectedQueryUrls
    /\ response_code = << >>
    /\ resp = [called |-> FALSE]
    /\ PipelineIdle
    /\ CombineIdle
    /\ MainIdle
    /\ ShardsIdle

\* resp = mailgun_email_services.send_email_to_recipients(...)
SendEmail ==
    /\ resp = [called |-> FALSE]
    /\ LET sent == send_email_to_recipients(
                       MAILGUN_API_KEY, MAILGUN_DOMAIN_NAME,
                       recipient_emails, expected_query_url)
       IN  /\ response_code' = sent.code
           /\ resp' = sent.resp
    /\ UNCHANGED << MAILGUN_API_KEY, MAILGUN_DOMAIN_NAME, recipient_emails,
                    expected_query_url >>
    /\ UNCHANGED << pipeline_vars, combine_vars, main_vars, shards_vars >>

MailNext == SendEmail

MailSpec == MailInit /\ [][MailNext]_vars

-----------------------------------------------------------------------------
(* Properties of CombineStats.                                             *)

\* The accumulators CombinePerKey holds, of every key.
Accumulators ==
    UNION { { partials[k][i] : i \in 1..Len(partials[k]) } : k \in DOMAIN partials }

\* The pairs of key k that have been folded into an accumulator.
Folded(k) == { e \in generated \ pending : e.key = k }

\* One accumulator folded from create_accumulator() over the pairs of S, one
\* after the other.
RECURSIVE FoldAll(_)
FoldAll(S) ==
    IF S = {} THEN create_accumulator
    ELSE LET e == CHOOSE x \in S : TRUE
         IN  add_input(FoldAll(S \ {e}), e.stats)

Counters ==
    { "submitted_translations_count", "submitted_translation_word_count",
      "accepted_translations_count",
      "accepted_translations_without_reviewer_edits_count",
      "accepted_translation_word_count", "rejected_translations_count",
      "rejected_translation_word_count" }

\* Equal counters and equal date sets.
SameStats(a, b) ==
    /\ \A c \in Counters : a[c] = b[c]
    /\ a.contribution_dates = b.contribution_dates

\* The orders that name every position of a sequence of length n.
FullOrders(n) == { o \in Orders(n) : Len(o) = n }

Permuted(seq, order) == [ j \in DOMAIN order |-> seq[order[j]] ]

\* C1: however the pairs of a key were split over partial accumulators, and
\* however these were folded and merged so far (nested merges included),
\* merging the accumulators of the key in any order gives the counters and
\* the dates of one accumulator folded over all those pairs.
C1_MergeOfPartialFoldsIsSingleFold ==
    \A k \in DOMAIN partials :
        \A order \in FullOrders(Len(partials[k])) :
            Len(partials[k]) > 0 =>
                SameStats(merge_accumulators(Permuted(partials[k], order)),
                          FoldAll(Folded(k)))

\* Three pairs of one key with two dates, split over two accumulators after
\* the shuffle, one of which holds two pairs.
C1_Witness ==
    \E k \in DOMAIN partials :
        /\ ungenerated = {}
        /\ Cardinality(Folded(k)) = 3
        /\ Len(partials[k]) = 2
        /\ partials[k][1].submitted_translations_count = 1
        /\ partials[k][2].submitted_translations_count = 2
        /\ Cardinality(FoldAll(Folded(k)).contribution_dates) = 2

\* C2: add_input always adds 1 and the word count to the submitted counters;
\* adds 1 and the word count to the accepted counters exactly for ACCEPTED;
\* adds 1 to the accepted-without-edits counter exactly for ACCEPTED and not
\* edited; adds 1 and the word count to the rejected counters exactly for
\* REJECTED; leaves the accepted and rejected counters alone otherwise; and
\* adds the pair's date to the dates.
C2_AddInputCounts ==
    \A e \in pending :
      \A acc \in Accumulators \cup { create_accumulator } :
        LET r == add_input(acc, e.stats)
            w == e.stats.content_word_count
            accepted == e.stats.suggestion_status = STATUS_ACCEPTED
            rejected == e.stats.suggestion_status = STATUS_REJECTED
            no_edit == accepted /\ ~e.stats.edited_by_reviewer
        IN  /\ ~IsException(r)
            /\ r.submitted_translations_count =
                   acc.submitted_translations_count + 1
            /\ r.submitted_translation_word_count =
                   acc.submitted_translation_word_count + w
            /\ r.accepted_translations_count =
                   acc.accepted_translations_count + (IF accepted THEN 1 ELSE 0)
            /\ r.accepted_translation_word_count =
                   acc.accepted_translation_word_count + (IF accepted THEN w ELSE 0)
            /\ r.accepted_translations_without_reviewer_edits_count =
                   acc.accepted_translations_without_reviewer_edits_count
                       + (IF no_edit THEN 1 ELSE 0)
            /\ r.rejected_translations_count =
                   acc.rejected_translations_count + (IF rejected THEN 1 ELSE 0)
            /\ r.rejected_translation_word_count =
                   acc.rejected_translation_word_count + (IF rejected THEN w ELSE 0)
            /\ r.contribution_dates =
                   acc.contribution_dates
                       \cup { Date((CHOOSE m \in suggestion_models :
                                       m.id = e.element).last_updated) }

\* A pair of an accepted, unedited suggestion waits to be folded into an
\* accumulator that already holds a pair.
C2_Witness ==
    \E e \in pending :
        /\ e.stats.suggestion_status = STATUS_ACCEPTED
        /\ ~e.stats.edited_by_reviewer
        /\ e.stats.content_word_count = 2
        /\ \E i \in 1..Len(partials[e.key]) :
               partials[e.key][i].submitted_translations_count = 1
        /\ \E d \in pending :
               d.stats.suggestion_status = STATUS_ACCEPTED
                   /\ d.stats.edited_by_reviewer

\* C3: in every accumulator made from create_accumulator() by add_input and
\* merge_accumulators, the counters are not negative, the accepted-without-
\* edits count is at most the accepted count, and accepted plus rejected is
\* at most submitted.
C3_CountersOrdered ==
    \A acc \in Accumulators :
        /\ \A c \in Counters : acc[c] >= 0
        /\ acc.accepted_translations_without_reviewer_edits_count
               <= acc.accepted_translations_count
        /\ acc.accepted_translations_count + acc.rejected_translations_count
               <= acc.submitted_translations_count

\* The one accumulator of a key after the shuffle holds three pairs: a
\* rejected one and two accepted ones, one of them edited.
C3_Witness ==
    \E k \in DOMAIN partials :
        /\ ungenerated = {}
        /\ Len(partials[k]) = 1
        /\ partials[k][1].submitted_translations_count = 3
        /\ partials[k][1].accepted_translations_count = 2
        /\ partials[k][1].accepted_translations_without_reviewer_edits_count = 1
        /\ partials[k][1].rejected_translations_count = 1

\* C4: in every such accumulator the accepted and the rejected word counts
\* are at most the submitted word count, and there are at most as many
\* contribution dates as submitted suggestions.
C4_WordCountsAndDatesBounded ==
    \A acc \in Accumulators :
        /\ acc.accepted_translation_word_count
               <= acc.submitted_translation_word_count
        /\ acc.rejected_translation_word_count
               <= acc.submitted_translation_word_count
        /\ Cardinality(acc.contribution_dates)
               <= acc.submitted_translations_count

\* The one accumulator of a key after the shuffle holds accepted and rejected
\* words, fewer dates than suggestions, and was folded from three pairs.
C4_Witness ==
    \E k \in DOMAIN partials :
        /\ ungenerated = {}
        /\ Len(partials[k]) = 1
        /\ partials[k][1].submitted_translations_count = 3
        /\ partials[k][1].accepted_translation_word_count = 3
        /\ partials[k][1].rejected_translation_word_count = 1
        /\ partials[k][1].submitted_translation_word_count = 4
        /\ Cardinality(partials[k][1].contribution_dates) = 2

\* C5: merging an accumulator with a fresh create_accumulator(), on either
\* side, gives the accumulator back, in every field.
C5_CreateAccumulatorIsIdentity ==
    \A x \in Accumulators :
        /\ merge_accumulators(<< create_accumulator, x >>) = x
        /\ merge_accumulators(<< x, create_accumulator >>) = x

\* An accumulator folded from two pairs of different dates.
C5_Witness ==
    \E x \in Accumulators :
        /\ x.submitted_translations_count = 2
        /\ x.submitted_translation_word_count = 3
        /\ Cardinality(x.contribution_dates) = 2

-----------------------------------------------------------------------------
(* Properties of the run.                                                  *)

\* The translation suggestions whose target is the id of no opportunity.
Unmatched ==
    { m \in TranslateSuggestions :
        \A o \in opportunity_models : o.id # m.target_id }

\* The pairs yielded under key k.
PairsOf(k) == { e \in generated : e.key = k }

\* The models written to the datastore.
Written == BagToSet(datastore)

\* C6: a translation suggestion whose target is no opportunity's id yields
\* one pair, under the key of its language, its author and the empty topic
\* id, and when the run is over the model written under that key carries
\* these three components and counts the pair with the others of the key.
C6_UnmatchedTargetIsCounted ==
    \A m \in Unmatched :
        LET k == generate_id(m.language_code, m.author_id, << >>) IN
        /\ m.target_id \notin ungenerated =>
               /\ Cardinality({ e \in generated : e.element = m.id }) = 1
               /\ \A e \in generated : e.element = m.id => e.key = k
        /\ Done =>
               \E model \in Written :
                   /\ model.id = k
                   /\ model.language_code = m.language_code
                   /\ model.contributor_user_id = m.author_id
                   /\ model.topic_id = << >>
                   /\ \E e \in PairsOf(k) : e.element = m.id
                   /\ model.submitted_translations_count =
                          Cardinality(PairsOf(k))
                   /\ SameStats(model, FoldAll(PairsOf(k)))

\* The run is over, with opportunities present and a suggestion whose target
\* matches none of them, next to a suggestion whose target is matched.
C6_Witness ==
    /\ Done
    /\ opportunity_models # {}
    /\ Unmatched # {}
    /\ TranslateSuggestions \ Unmatched # {}
    /\ \E model \in Written :
           model.topic_id = << >> /\ model.submitted_translations_count = 2

\* The opportunity ids that two or more opportunities share.
DuplicateIds ==
    { i \in DOMAIN exp_opportunities : Cardinality(exp_opportunities[i]) >= 2 }

\* C7 as claimed: with two opportunities of one id the run fails before any
\* aggregate is made, so no model reaches the writer or the datastore.
C7_DuplicateIdsFailTheRun ==
    DuplicateIds # {} =>
        /\ BagToSet(new_user_stats_models) = {}
        /\ Written = {}

\* C7, amended: with two or more opportunities of one id the run does not
\* fail; the suggestions of that target all get the topic id of one of the
\* duplicates, and when the run is over a model is written for every key.
C7_DuplicateIdsPickOne ==
    \A i \in DuplicateIds :
        /\ run_error = NoError
        /\ i \notin ungenerated =>
               \E o \in exp_opportunities[i] :
                   \A m \in TranslateSuggestions :
                       m.target_id = i =>
                           \E e \in generated :
                               /\ e.element = m.id
                               /\ e.key = generate_id(m.language_code,
                                                      m.author_id, o.topic_id)
        /\ Done => \A e \in generated : \E model \in Written : model.id = e.key

\* The run is over although two opportunities share an id that suggestions
\* target, and a model with the topic of the second duplicate is written.
C7_Witness ==
    /\ Done
    /\ \E i \in DuplicateIds : \E m \in TranslateSuggestions : m.target_id = i
    /\ \E model \in Written : model.topic_id = T2

\* C8 as claimed: without translation suggestions the finished run has
\* written nothing and reports a result that states the count 0.
C8_NoSuggestionsReportZero ==
    (TranslateSuggestions = {} /\ Done) =>
        /\ Written = {}
        /\ Len(results) = 1
        /\ results[1] = JobRunResult(0)

\* C8, amended: without translation suggestions the run makes and writes no
\* model and does not fail, and it emits no result at all, the count 0
\* included.
C8_NoSuggestionsNoResult ==
    TranslateSuggestions = {} =>
        /\ BagToSet(new_user_stats_models) = {}
        /\ Written = {}
        /\ run_error = NoError
        /\ results = << >>

\* The run is over with suggestions of another type and opportunities, but
\* no translation suggestion.
C8_Witness ==
    /\ Done
    /\ TranslateSuggestions = {}
    /\ suggestion_models # {}
    /\ opportunity_models # {}

\* 'SUCCESS '
Success == << "S", "U", "C", "C", "E", "S", "S", " " >>

\* C9: with at least one translation suggestion the run emits nothing before
\* the count and then exactly one result 'SUCCESS x', where x is the number
\* of distinct keys of the pairs and the number of models handed to the
\* writer; when the run is over that many models are written.
C9_OneResultWithTheNumberOfKeys ==
    TranslateSuggestions # {} =>
        /\ ~counted => results = << >>
        /\ counted =>
               /\ Len(results) = 1
               /\ Len(results[1].stdout) > Len(Success)
               /\ SubSeq(results[1].stdout, 1, Len(Success)) = Success
               /\ StrToInt(SubSeq(results[1].stdout, Len(Success) + 1,
                                  Len(results[1].stdout)))
                      = Cardinality(Keys)
               /\ BagCardinality(new_user_stats_models) = Cardinality(Keys)
        /\ Done => BagCardinality(datastore) = Cardinality(Keys)

\* The run is over with three pairs under two keys and the result SUCCESS 2.
C9_Witness ==
    /\ Done
    /\ Cardinality(generated) = 3
    /\ Cardinality(Keys) = 2
    /\ results = << [ stdout |-> Success \o << "2" >> ] >>

\* C10: no model is handed to the writer twice, none is written twice, and
\* no two models handed over or written have the same id.
C10_AtMostOneModelPerKey ==
    \A bag \in { new_user_stats_models, datastore } :
        \A model \in BagToSet(bag) :
            /\ CopiesIn(model, bag) = 1
            /\ \A other \in BagToSet(bag) : other.id = model.id => other = model

\* The run is over and the models of two keys are written, one of them
\* merged from two pairs.
C10_Witness ==
    /\ Done
    /\ Cardinality(Written) = 2
    /\ \E model \in Written : model.submitted_translations_count = 2

\* The models handed to the writer, written or not.
HandedOver == BagToSet(new_user_stats_models)

\* The suggestions of the input that are of the translation-content type.
TranslationProposals ==
    { m \in suggestion_models :
        m.suggestion_type = SUGGESTION_TYPE_TRANSLATE_CONTENT }

\* C11: a model is handed to the writer, and written, only when every
\* translation suggestion of the input has yielded its pair and every pair of
\* the model's key is folded into it: in every state of every interleaving,
\* hence also in the state an aborted run stops in, a model counts all the
\* pairs of its key, never a strict subset.
C11_OnlyFinishedAggregatesAreWritten ==
    \A model \in HandedOver \cup Written :
        /\ ungenerated = {}
        /\ \A m \in TranslationProposals :
               \E e \in generated : e.element = m.id
        /\ \A e \in pending : e.key # model.id
        /\ model.submitted_translations_count = Cardinality(PairsOf(model.id))
        /\ SameStats(model, FoldAll(PairsOf(model.id)))

\* The model of a key with two pairs is written while a pair of another key
\* is still waiting to be folded.
C11_Witness ==
    /\ \E model \in Written : model.submitted_translations_count = 2
    /\ pending # {}
    /\ ~counted

\* C12 as stated: whenever the 'SUCCESS x' result exists, the model of every
\* key has been written to the datastore.
C12_SummaryAfterAllWrites ==
    results # << >> =>
        /\ \A k \in Keys : \E model \in Written : model.id = k
        /\ Unput = EmptyBag

\* C12: the result is made at most once, and only after the aggregate of every
\* key has been combined, made into a model and handed to the writer; the
\* count and the write are two consumers of new_user_stats_models and neither
\* waits for the other.
C12_SummaryAfterAllModelsAreMade ==
    /\ Len(results) <= 1
    /\ results # << >> =>
           /\ counted
           /\ ungenerated = {}
           /\ pending = {}
           /\ \A k \in Keys : \E model \in HandedOver : model.id = k

\* The result exists, one of two models is written and the other is not.
C12_Witness ==
    /\ results # << >>
    /\ BagCardinality(new_user_stats_models) = 2
    /\ BagCardinality(datastore) = 1
    /\ Unput # EmptyBag

\* The sum of a counter over a set of models.
RECURSIVE Total(_, _)
Total(models, field) ==
    IF models = {} THEN 0
    ELSE LET model == CHOOSE x \in models : TRUE
         IN  model[field] + Total(models \ {model}, field)

\* The number of words of the translations of a set of suggestions.
RECURSIVE Words(_)
Words(suggestions) ==
    IF suggestions = {} THEN 0
    ELSE LET m == CHOOSE x \in suggestions : TRUE
         IN  WordCount(strip_html_tags(m.content_html))
                 + Words(suggestions \ {m})

\* C13: once every group has gone through 'Generate stats', every
\* translation-content suggestion has exactly one pair and there are no other
\* pairs; at the end of the run the submitted counts of the written models
\* add up to the number of translation-content suggestions of the input and
\* the submitted word counts add up to the words of their translations.
C13_EveryProposalCountedOnce ==
    /\ ungenerated = {} =>
           /\ \A m \in TranslationProposals :
                  Cardinality({ e \in generated : e.element = m.id }) = 1
           /\ Cardinality(generated) = Cardinality(TranslationProposals)
    /\ Done =>
           /\ Total(Written, "submitted_translations_count")
                  = Cardinality(TranslationProposals)
           /\ Total(Written, "submitted_translation_word_count")
                  = Words(TranslationProposals)

\* A finished run over three translation suggestions of five words, two of
\* which share a key.
C13_Witness ==
    /\ Done
    /\ Cardinality(TranslationProposals) = 3
    /\ Words(TranslationProposals) = 5
    /\ Cardinality(Written) = 2

\* The translation-content suggestions other than m that a pair of key k was
\* made from.
OthersBehind(k, m) ==
    { t \in suggestion_models \ {m} :
        /\ t.suggestion_type = SUGGESTION_TYPE_TRANSLATE_CONTENT
        /\ \E e \in PairsOf(k) : e.element = t.id }

\* C14: a suggestion that is not of the translation-content type yields no
\* pair, no key and no count: every key has a translation-content suggestion
\* behind it, and the submitted counters of every model are those of the
\* translation-content suggestions of its key alone.
C14_OtherTypesContributeNothing ==
    \A m \in suggestion_models :
        m.suggestion_type # SUGGESTION_TYPE_TRANSLATE_CONTENT =>
            /\ \A e \in generated : e.element # m.id
            /\ \A k \in Keys : OthersBehind(k, m) # {}
            /\ \A model \in HandedOver :
                   /\ model.submitted_translations_count
                          = Cardinality(OthersBehind(model.id, m))
                   /\ model.submitted_translation_word_count
                          = Words(OthersBehind(model.id, m))

\* A finished run over a question suggestion and a translation suggestion
\* with the same target, language and author: one model, counting one.
C14_Witness ==
    /\ Done
    /\ \E m, t \in suggestion_models :
           /\ m.suggestion_type = SUGGESTION_TYPE_ADD_QUESTION
           /\ t.suggestion_type = SUGGESTION_TYPE_TRANSLATE_CONTENT
           /\ m.target_id = t.target_id
           /\ m.language_code = t.language_code
           /\ m.author_id = t.author_id
    /\ \E model \in Written : model.submitted_translations_count = 1

\* The language, contributor and topic of an accumulator or of a model.
Identity(stats) ==
    << stats.language_code, stats.contributor_user_id, stats.topic_id >>

\* The topic ids _generate_stats can give a suggestion: those of the
\* opportunities with the suggestion's target as id, or '' when there is none.
TopicsOf(m) ==
    IF \E o \in opportunity_models : o.id = m.target_id
    THEN { o.topic_id : o \in { p \in opportunity_models : p.id = m.target_id } }
    ELSE { << >> }

\* C15 as stated: an accumulator into which a pair of a key has been folded
\* has the three components of the key as language, contributor and topic.
C15_AccumulatorCarriesTheKey ==
    \A k \in DOMAIN partials : \A i \in DOMAIN partials[k] :
        partials[k][i].submitted_translations_count >= 1 =>
            Identity(partials[k][i]) = SplitOn(k, ".")

\* C15: add_input and merge_accumulators copy the language, contributor and
\* topic of the accumulator they are given, so every accumulator keeps those
\* of create_accumulator(), which is made without the key; the components of
\* the key reach the model through the split of its id, and they are the
\* language and author of every suggestion counted in the model and a topic
\* of its target.
C15_IdentityComesFromTheId ==
    /\ \A acc \in Accumulators : Identity(acc) = Identity(create_accumulator)
    /\ \A model \in HandedOver :
           /\ Identity(model) = SplitOn(model.id, ".")
           /\ \A e \in PairsOf(model.id) :
                  LET m == CHOOSE t \in suggestion_models : t.id = e.element
                  IN  /\ model.language_code = m.language_code
                      /\ model.contributor_user_id = m.author_id
                      /\ model.topic_id \in TopicsOf(m)

\* Two pairs of a key are in one accumulator, by add_input or by a merge, and
\* the model of the key is made.
C15_Witness ==
    \E model \in HandedOver :
        /\ model.submitted_translations_count = 2
        /\ model.language_code = HI
        /\ model.topic_id = T1
        /\ \E i \in DOMAIN partials[model.id] :
               /\ partials[model.id][i].submitted_translations_count = 2
               /\ partials[model.id][i].language_code # HI

\* One run taken as the reference: every group takes one opportunity of its
\* id, the pairs of a key are folded one after the other into one
\* accumulator, and the model of every key is made.
ReferencePairs ==
    UNION { generate_stats(
                SuggestionsOf(CoGroupByKey(k)),
                CHOOSE o \in OpportunitiesOf(CoGroupByKey(k)) : TRUE) :
            k \in CoGroupKeys }

ReferenceModels ==
    { generate_translation_contribution_model(
          k, extract_output(FoldAll({ e \in ReferencePairs : e.key = k }))) :
      k \in { e.key : e \in ReferencePairs } }

\* The ids of several opportunities that are the target of a translation
\* suggestion.
TargetedDuplicateIds ==
    { i \in DuplicateIds : \E m \in TranslationProposals : m.target_id = i }

\* C18 as stated: any two runs over the same suggestions and opportunities
\* write the same models, that is, every finished run writes the models of
\* the reference run over its input.
C18_RunsAgree == Done => Written = ReferenceModels

\* C18: when no target of a translation suggestion is the id of several
\* opportunities, every run over the same input hands over only models of the
\* reference run and, once finished, has written exactly those, whatever the
\* order of the steps, the spread of the pairs over accumulators and the
\* order of the merges.
C18_RunsAgreeWithoutDuplicateIds ==
    TargetedDuplicateIds = {} =>
        /\ HandedOver \subseteq ReferenceModels
        /\ Done => Written = ReferenceModels

\* A finished run without duplicate ids in which three suggestions of two
\* targets and two days are counted in one model.
C18_Witness ==
    /\ Done
    /\ TargetedDuplicateIds = {}
    /\ opportunity_models # {}
    /\ \E model \in Written :
           /\ model.submitted_translations_count = 3
           /\ Cardinality(model.contribution_dates) = 2

\* The opportunities whose id is the target of no translation suggestion.
Untargeted ==
    { o \in opportunity_models :
        \A m \in TranslationProposals : m.target_id # o.id }

\* The keys of the translation suggestions: language, author and a topic of
\* the target.
ProposalKeys ==
    UNION { { generate_id(m.language_code, m.author_id, t) : t \in TopicsOf(m) } :
            m \in TranslationProposals }

\* C19: an opportunity that no translation suggestion targets does not fail
\* the run and yields nothing: every pair is the pair of a translation
\* suggestion under a key of that suggestion, there are no more pairs than
\* suggestions, every model has a pair behind it, and the number reported is
\* the number of keys of the pairs (no result when there is none).
C19_UntargetedOpportunityYieldsNothing ==
    Untargeted # {} =>
        /\ run_error = NoError
        /\ \A e \in generated :
               \E m \in TranslationProposals :
                   /\ m.id = e.element
                   /\ e.key \in ProposalKeys
        /\ Cardinality(generated) <= Cardinality(TranslationProposals)
        /\ \A model \in HandedOver : PairsOf(model.id) # {}
        /\ counted =>
               results = IF Keys = {} THEN << >>
                         ELSE << JobRunResult(Cardinality(Keys)) >>

\* A finished run over an opportunity that nothing targets, an opportunity
\* that is targeted and a suggestion: one model, and 'SUCCESS 1'.
C19_Witness ==
    /\ Done
    /\ Untargeted # {}
    /\ opportunity_models \ Untargeted # {}
    /\ Cardinality(Written) = 1
    /\ results = << JobRunResult(1) >>

\* Some two of the accumulators differ in language, contributor or topic.
Mismatched(accumulators) ==
    \E i, j \in DOMAIN accumulators :
        Identity(accumulators[i]) # Identity(accumulators[j])

\* C16 as stated: merge_accumulators on accumulators that differ in language,
\* contributor or topic raises, and returns no aggregate.
C16_MismatchedMergeFails ==
    (last_call.op = "merge_accumulators" /\ Mismatched(last_call.accumulators))
        => /\ IsException(last_call.result)
           /\ combine_error # NoError

\* C16: merge_accumulators does not compare the accumulators: on accumulators
\* that differ in language, contributor or topic it raises nothing and
\* returns the language, contributor and topic of the first with the counters
\* of all added up and their dates united; it raises, an IndexError, only on
\* no accumulators at all.
C16_MismatchedMergeTakesTheFirst ==
    last_call.op = "merge_accumulators" =>
        IF last_call.accumulators = << >>
        THEN last_call.result = IndexError /\ combine_error = IndexError.exception
        ELSE /\ ~IsException(last_call.result)
             /\ combine_error = NoError
             /\ Mismatched(last_call.accumulators) =>
                    /\ Identity(last_call.result)
                           = Identity(last_call.accumulators[1])
                    /\ \A c \in Counters :
                           last_call.result[c] = sum(last_call.accumulators, c)
                    /\ last_call.result.contribution_dates
                           = UNION { last_call.accumulators[j].contribution_dates :
                                     j \in DOMAIN last_call.accumulators }

\* Two accumulators of different languages, counting one translation each,
\* have been merged into one that counts two.
C16_Witness ==
    /\ last_call.op = "merge_accumulators"
    /\ Len(last_call.accumulators) = 2
    /\ last_call.accumulators[1].language_code = HI
    /\ last_call.accumulators[2].language_code = ES
    /\ last_call.accumulators[1].submitted_translations_count = 1
    /\ last_call.accumulators[2].submitted_translations_count = 1
    /\ last_call.result.submitted_translations_count = 2
    /\ last_call.result.language_code = HI

\* C17 as stated: add_input on a stats dict whose date cannot be parsed
\* returns the accumulator as it was, and the worker goes on.
C17_UnparsableDateIsSkipped ==
    ( /\ last_call.op = "add_input"
      /\ last_call.translation.last_updated_date \in UnparsableDateStrings )
        => /\ last_call.result = last_call.accumulator
           /\ combine_error = NoError

\* C17: add_input on a stats dict whose date cannot be parsed raises the
\* ValueError of strptime and returns no accumulator, and that is the last
\* call of the worker; on a date that can be parsed it counts the translation
\* and adds the date.
C17_UnparsableDateRaises ==
    /\ last_call.op = "add_input" =>
           IF last_call.translation.last_updated_date \in UnparsableDateStrings
           THEN /\ last_call.result = ValueError
                /\ combine_error = ValueError.exception
           ELSE /\ ~IsException(last_call.result)
                /\ combine_error = NoError
                /\ last_call.result.submitted_translations_count
                       = last_call.accumulator.submitted_translations_count + 1
                /\ Cardinality(last_call.result.contribution_dates
                                   \ last_call.accumulator.contribution_dates) <= 1
    /\ combine_error = ValueError.exception =>
           /\ last_call.op = "add_input"
           /\ last_call.result = ValueError

\* A worker holding two accumulators was given the 30th of February for one
\* of them.
C17_Witness ==
    /\ last_call.op = "add_input"
    /\ last_call.translation.last_updated_date
           = << "2", "0", "2", "4", "-", "0", "2", "-", "3", "0" >>
    /\ Len(held_accumulators) = 2
    /\ combine_error = ValueError.exception

\* main has raised because of coverage: of the files of single test modules
\* or of the combined report.
RaisedForCoverage ==
    /\ "message" \in DOMAIN main_raised
    /\ main_raised.message \in
           { "%s tests incompletely cover associated code files.",
             "Backend test coverage is not 100%" }

\* Every task finished without exception and its report tells the tests it
\* ran.
EveryTestPasses ==
    /\ ~task_execution_failed
    /\ \A i \in DOMAIN tasks :
           /\ tasks[i].finished
           /\ tasks[i].exception = NotRaised
           /\ tasks[i].ran # << >>

\* C20: called with --generate_coverage_report and --ignore_coverage, and
\* every test passing, main does not raise because of coverage, be it that of
\* the file of one test module or that of the combined report.
C20_IgnoreCoverageNeverFailsOnCoverage ==
    ( /\ parsed_args.generate_coverage_report
      /\ parsed_args.ignore_coverage
      /\ EveryTestPasses )
        => ~RaisedForCoverage

\* The modules the shards list, and how often a module is listed in all.
Listed == UNION { { shards_file[n][i] : i \in DOMAIN shards_file[n] } :
                  n \in DOMAIN shards_file }

RECURSIVE Occurrences(_, _)
Occurrences(module, names) ==
    IF names = {} THEN 0
    ELSE LET n == CHOOSE x \in names : TRUE
         IN  Count(shards_file[n], module) + Occurrences(module, names \ {n})

\* The shards that list a module.
ShardsListing(module) ==
    { n \in DOMAIN shards_file :
        \E i \in DOMAIN shards_file[n] : shards_file[n][i] = module }

Called == validation_error # [called |-> FALSE]

\* C21 as stated: the empty string is returned if and only if every test
\* module found is listed in exactly one shard and every module listed is
\* found.
C21_EmptyIffEachModuleInOneShard ==
    Called =>
        ( validation_error = Description("", {})
            <=> /\ \A m \in test_files : Cardinality(ShardsListing(m)) = 1
                /\ Listed \subseteq test_files )

\* C21: the empty string is returned if and only if every test module found
\* is listed exactly once in all the shards together and every module listed
\* is found (a module listed twice in one shard is a duplicate as well).
\* Otherwise a description is returned: of the first, in sorted order, of
\* the modules listed more than once if there is one, else of the modules
\* listed and not found if there are any, else of the modules found and not
\* listed, which are some; nothing is raised and the assertion holds.
C21_EmptyIffEachModuleListedOnce ==
    Called =>
        /\ ~IsException(validation_error)
        /\ validation_error = Description("", {})
             <=> /\ \A m \in test_files : Occurrences(m, DOMAIN shards_file) = 1
                 /\ Listed \subseteq test_files
        /\ validation_error.template # "" =>
             LET duplicated ==
                     { m \in Listed : Occurrences(m, DOMAIN shards_file) > 1 }
             IN  IF duplicated # {}
                 THEN /\ validation_error.template = "{} duplicated in {}"
                      /\ \E m \in duplicated :
                             /\ validation_error.modules = {m}
                             /\ \A i \in DOMAIN ModuleNames :
                                    ModuleNames[i] \in duplicated =>
                                        \E j \in 1..i : ModuleNames[j] = m
                 ELSE IF Listed \ test_files # {}
                 THEN validation_error =
                          Description("Modules {} in shards not found. See {}.",
                                      Listed \ test_files)
                 ELSE /\ test_files \ Listed # {}
                      /\ validation_error =
                             Description("Modules {} not in shards. See {}.",
                                         test_files \ Listed)

\* Shard 1 lists core.b_test twice and shard 2 lists core.a_test, both are
\* found, and the duplicate is reported.
C21_Witness ==
    /\ Called
    /\ shards_file["1"] = << "core.b_test", "core.b_test" >>
    /\ shards_file["2"] = << "core.a_test" >>
    /\ test_files = { "core.a_test", "core.b_test" }
    /\ validation_error = Description("{} duplicated in {}", { "core.b_test" })

\* send_email_to_recipients has been called.
Sent == resp # [called |-> FALSE]

TestCountOf(task) ==
    IF ~task.finished THEN 0
    ELSE IF task.exception = CalledProcessError THEN 0
    ELSE IF task.exception # NotRaised
    THEN IF task.exception.no_tests_were_run THEN 0
         ELSE IF task.exception.tests_failed_regex_match # << >>
         THEN task.exception.tests_failed_regex_match[1]
         ELSE 0
    ELSE IF task.ran # << >> THEN task.ran[1] ELSE 0

\* The sum of the test counts of the first n tasks.
RECURSIVE SumOfTestCounts(_)
SumOfTestCounts(n) ==
    IF n = 0 THEN 0 ELSE TestCountOf(tasks[n]) + SumOfTestCounts(n - 1)

\* The loop over the tasks has ended without raising, and the report of every
\* successful task tells the tests it ran.
LoopEnded ==
    /\ task_index = Len(tasks)
    /\ main_raised \in { NotRaised, Exception("WARNING: No tests were run.", << >>) }
    /\ \A i \in DOMAIN tasks :
           (tasks[i].finished /\ tasks[i].exception = NotRaised)
               => tasks[i].ran # << >>

\* C24: after the loop of the summary total_count is the sum of the test
\* counts of all tasks, with or without --generate_coverage_report and with
\* targets in the coverage exclusion list or not; main raises 'WARNING: No
\* tests were run.' only when no task ran a test.
C24_TotalCountIsTheSumOfTestCounts ==
    LoopEnded =>
        /\ total_count = SumOfTestCounts(Len(tasks))
        /\ main_raised = Exception("WARNING: No tests were run.", << >>)
               => SumOfTestCounts(Len(tasks)) = 0

\* s contains the '.' that generate_id joins with.
HasDot(s) == \E i \in DOMAIN s : s[i] = "."

\* The suggestion a pair of 'Generate stats' was made from.
SuggestionOf(e) == CHOOSE m \in suggestion_models : m.id = e.element

\* C23 as stated: for all values of the components, those with '.' in them
\* too, the split of a key gives back the language code, the author id and
\* the topic id _generate_stats built it from, and a written record has them
\* as its fields.
C23_SplitGivesBackTheComponents ==
    /\ \A e \in generated :
           \E topic_id \in TopicsOf(SuggestionOf(e)) :
               SplitOn(e.key, ".")
                   = << SuggestionOf(e).language_code,
                        SuggestionOf(e).author_id, topic_id >>
    /\ \A model \in Written :
           /\ Identity(model) = SplitOn(model.id, ".")
           /\ \A e \in PairsOf(model.id) :
                  /\ model.language_code = SuggestionOf(e).language_code
                  /\ model.contributor_user_id = SuggestionOf(e).author_id
                  /\ model.topic_id \in TopicsOf(SuggestionOf(e))

\* C23: the split of a key gives back the language code, the author id and
\* the topic id it was built from when none of them contains '.', an empty
\* topic id included, and every written record has them as its fields and
\* they are those of the proposals counted in it.  A key built from a
\* component with '.' splits into more than three parts: no record is made
\* from it and the run does not come to its end.
C23_SplitGivesBackDotFreeComponents ==
    /\ \A e \in generated :
           \E topic_id \in TopicsOf(SuggestionOf(e)) :
               /\ e.key = generate_id(SuggestionOf(e).language_code,
                                      SuggestionOf(e).author_id, topic_id)
               /\ IF \/ HasDot(SuggestionOf(e).language_code)
                     \/ HasDot(SuggestionOf(e).author_id)
                     \/ HasDot(topic_id)
                  THEN /\ Len(SplitOn(e.key, ".")) > 3
                       /\ \A model \in HandedOver : model.id # e.key
                       /\ ~(counted /\ run_error = NoError)
                  ELSE SplitOn(e.key, ".")
                           = << SuggestionOf(e).language_code,
                                SuggestionOf(e).author_id, topic_id >>
    /\ \A model \in Written :
           /\ Identity(model) = SplitOn(model.id, ".")
           /\ \A e \in PairsOf(model.id) :
                  /\ model.language_code = SuggestionOf(e).language_code
                  /\ model.contributor_user_id = SuggestionOf(e).author_id
                  /\ model.topic_id \in TopicsOf(SuggestionOf(e))
    /\ run_error = ValueError.exception
           => \E e \in generated : Len(SplitOn(e.key, ".")) > 3

\* A record with an empty topic id is written, and the key of a language
\* code with '.' has raised the ValueError.
C23_Witness ==
    /\ \E model \in Written :
           /\ model.topic_id = << >>
           /\ model.id = generate_id(HI, U1, << >>)
    /\ \E e \in generated : SuggestionOf(e).language_code = PT_BR
    /\ run_error = ValueError.exception

=============================================================================
